---- MODULE Spec2Model ----
(***************************************************************************)
(* Model of cmd/utils.go (package cmd): the go.sum save/restore helpers,   *)
(* the go.sum parser, the output patterns and their handlers, and the      *)
(* merge of the two outputs of the graph command.                          *)
(*                                                                         *)
(* Go strings and byte slices are sequences of one-character strings.      *)
(* A Go error is a sequence of characters too; the nil error is Nil.       *)
(***************************************************************************)
EXTENDS Integers, Sequences, FiniteSets, TLC

VARIABLES
    gosum,            \* the file <rootProjectDir>/go.sum
    pc,               \* position of the caller around the mutating operation
    sumFileContent,   \* first value returned by GetSumContentAndRemove
    sumFileStat,      \* second value returned by GetSumContentAndRemove
    err,              \* error returned by the last call
    fault,            \* the I/O failure the last call met ("none": no failure)
    panicked,         \* the last call ended in a run-time panic
    origSum,          \* go.sum as it was when GetSumContentAndRemove was called
    modules,          \* value returned by FetchModulesFromGoSum
    protocolRegExp, notFoundRegExp, unrecognizedImportRegExp,
    unknownRevisionRegExp, gitFetchErrorRegExp, notFoundZipRegExp,
    calls,            \* number of calls of prepareRegExp so far
    compileCount,     \* per pattern, the number of attempts to compile it
    failedNow,        \* the patterns whose compilation failed in the last call
    everFailed,       \* some compilation has failed
    pattern,          \* the *CmdOutputPattern a handler is called with
    result,           \* the string the handler returned
    stderr,           \* what was written to the standard error
    output,           \* standard output of the graph command
    errorOutput,      \* standard error of the graph command
    mapOfDeps         \* value returned by outputToMap

fileVars == <<gosum, pc, sumFileContent, sumFileStat, fault, panicked,
              origSum, modules>>
regExpVars == <<protocolRegExp, notFoundRegExp, unrecognizedImportRegExp,
                unknownRevisionRegExp, gitFetchErrorRegExp, notFoundZipRegExp,
                calls, compileCount, failedNow, everFailed>>
handlerVars == <<pattern, result, stderr>>
outputVars == <<output, errorOutput, mapOfDeps>>
vars == <<fileVars, err, regExpVars, handlerVars, outputVars>>

(***************************************************************************)
(* Bounds                                                                  *)
(***************************************************************************)
MaxSumLines == 1
MaxFetchLines == 2
MaxCalls == 4
MaxMatched == 3
MaxOutLines == 2
MaxErrLines == 2

(***************************************************************************)
(* Strings                                                                 *)
(***************************************************************************)
Nil == <<"<nil>">>
NL == "\n"

\* The class \s of package regexp.
IsReSpace(c) == c \in {" ", "\t", "\n", "\r", "\f"}

IoError(op) == <<"i", "o", ":">> \o op

\* Every text of exactly n lines of pool, each line ended by a newline.
RECURSIVE TextsOfLen(_, _)
TextsOfLen(pool, n) ==
    IF n = 0 THEN {<< >>}
    ELSE {l \o <<NL>> \o t : l \in pool, t \in TextsOfLen(pool, n - 1)}

\* The same texts, and each also without its final newline.
Texts(pool, max) ==
    LET full == UNION {TextsOfLen(pool, n) : n \in 0..max}
    IN  full \cup {SubSeq(t, 1, Len(t) - 1) : t \in full \ {<< >>}}

(***************************************************************************)
(* Files                                                                   *)
(***************************************************************************)
PermBits == {"uR", "uW", "gW"}
FileModes == SUBSET PermBits
NoFile == [exists |-> FALSE, content |-> << >>, mode |-> {}]
NoStat == [isNil |-> TRUE, mode |-> {}]
File(c, m) == [exists |-> TRUE, content |-> c, mode |-> m]

SumLinePool == {<<"a", " ", "v", "1", "/", "g", "o", ".", "m", "o", "d">>,
                <<"a", " ", "v", "1", " ", "h", "1", ":", "x">>}
SumContents == Texts(SumLinePool, MaxSumLines)

\* os.Stat
osStat(f) == [isNil |-> FALSE, mode |-> f.mode]

\* ioutil.WriteFile: open with O_WRONLY|O_CREATE|O_TRUNC and perm, then write.
\* An existing file is truncated and keeps its mode; perm is used only when
\* the file is created (the process's umask is taken to be 0).
WriteFileOpened(f, perm) ==
    IF f.exists THEN File(<< >>, f.mode) ELSE File(<< >>, perm)
WriteFile(f, data, perm, fail) ==
    CASE fail = "open"  -> [file |-> f, err |-> IoError(<<"o">>)]
      [] fail = "write" -> [file |-> WriteFileOpened(f, perm), err |-> IoError(<<"w">>)]
      [] OTHER          -> [file |-> [WriteFileOpened(f, perm) EXCEPT !.content = data],
                            err |-> Nil]

\* GetFileDetails(filePath): the stat and the bytes of the file.
GetFileDetails(f, fail) ==
    CASE fail = "stat" -> [content |-> << >>, stat |-> NoStat, err |-> IoError(<<"s">>)]
      [] fail = "read" -> [content |-> << >>, stat |-> osStat(f), err |-> IoError(<<"r">>)]
      [] OTHER         -> [content |-> f.content, stat |-> osStat(f), err |-> Nil]

\* Before any call.
InitCaller ==
    /\ pc = "start"
    /\ sumFileContent = << >>
    /\ sumFileStat = NoStat
    /\ err = Nil
    /\ fault = "none"
    /\ panicked = FALSE
    /\ origSum = NoFile
    /\ modules = << >>

PatternNames == {"protocol", "notFound", "unrecognizedImport",
                 "unknownRevision", "gitFetchError", "notFoundZip"}

\* The package-level pattern variables before prepareRegExp is called.
NilPattern == [isNil |-> TRUE, RegExp |-> "nil", ExecFunc |-> "nil"]
InitPatterns ==
    /\ protocolRegExp = NilPattern
    /\ notFoundRegExp = NilPattern
    /\ unrecognizedImportRegExp = NilPattern
    /\ unknownRevisionRegExp = NilPattern
    /\ gitFetchErrorRegExp = NilPattern
    /\ notFoundZipRegExp = NilPattern
    /\ compileCount = [n \in PatternNames |-> 0]
    /\ failedNow = {}
    /\ everFailed = FALSE
    /\ calls = 0

\* No handler is called.
IdleHandlers ==
    /\ pattern = [Line |-> << >>, MatchedResults |-> << >>]
    /\ result = << >>
    /\ stderr = << >>

\* outputToMap is not called.
IdleOutput ==
    /\ output = << >>
    /\ errorOutput = << >>
    /\ mapOfDeps = << >>

(***************************************************************************)
(* go.sum save and restore                                                 *)
(***************************************************************************)
GetFails == {"none", "exists", "stat", "read", "remove"}
RestoreFails == {"none", "open", "write"}

GetSumContentAndRemove(fail) ==
    /\ pc \in {"start", "restored"}
    /\ fail \in (IF gosum.exists THEN GetFails ELSE {"none", "exists"})
    /\ origSum' = gosum
    /\ panicked' = FALSE
    /\ fault' = fail
    /\ IF fail = "exists"
       THEN /\ sumFileContent' = << >>
            /\ sumFileStat' = NoStat
            /\ err' = IoError(<<"e">>)
            /\ gosum' = gosum
       ELSE IF gosum.exists
       THEN LET d == GetFileDetails(gosum, fail)
            IN  /\ sumFileContent' = d.content
                /\ sumFileStat' = d.stat
                /\ IF d.err # Nil
                   THEN err' = d.err /\ gosum' = gosum
                   ELSE IF fail = "remove"
                   THEN err' = IoError(<<"d">>) /\ gosum' = gosum
                   ELSE err' = Nil /\ gosum' = NoFile
       ELSE /\ sumFileContent' = << >>
            /\ sumFileStat' = NoStat
            /\ err' = Nil
            /\ gosum' = gosum
    /\ pc' = IF err' = Nil THEN "removed" ELSE "start"
    /\ UNCHANGED <<modules, regExpVars, handlerVars, outputVars>>

\* A restore that leaves alone a go.sum the operations in between re-created.
RestoreSumFile_KeepExisting(fail) ==
    /\ pc = "removed"
    /\ pc' = "restored"
    /\ fault' = fail
    /\ IF sumFileStat.isNil
       THEN /\ fail = "none"
            /\ panicked' = TRUE
            /\ err' = Nil
            /\ gosum' = gosum
       ELSE LET w == IF gosum.exists /\ fail = "none"
                     THEN [file |-> gosum, err |-> Nil]
                     ELSE WriteFile(gosum, sumFileContent, sumFileStat.mode, fail)
            IN  /\ panicked' = FALSE
                /\ err' = w.err
                /\ gosum' = w.file
    /\ UNCHANGED <<sumFileContent, sumFileStat, origSum, modules, regExpVars, handlerVars, outputVars>>

RestoreSumFile(fail) ==
    /\ pc = "removed"
    /\ pc' = "restored"
    /\ fault' = fail
    /\ IF sumFileStat.isNil
       THEN /\ fail = "none"
            /\ panicked' = TRUE
            /\ err' = Nil
            /\ gosum' = gosum
       ELSE LET w == WriteFile(gosum, sumFileContent, sumFileStat.mode, fail)
            IN  /\ panicked' = FALSE
                /\ err' = w.err
                /\ gosum' = w.file
    /\ UNCHANGED <<sumFileContent, sumFileStat, origSum, modules, regExpVars, handlerVars, outputVars>>

\* The operations between the save and the restore (the go command) create,
\* rewrite or delete go.sum.
MutateWrite(c, m) ==
    /\ pc = "removed"
    /\ gosum' = File(c, m)
    /\ UNCHANGED <<pc, sumFileContent, sumFileStat, err, fault, panicked,
                   origSum, modules, regExpVars, handlerVars, outputVars>>

MutateDelete ==
    /\ pc = "removed"
    /\ gosum.exists
    /\ gosum' = NoFile
    /\ UNCHANGED <<pc, sumFileContent, sumFileStat, err, fault, panicked,
                   origSum, modules, regExpVars, handlerVars, outputVars>>

InitSum ==
    /\ gosum \in {NoFile} \cup {File(c, m) : c \in SumContents, m \in FileModes}
    /\ InitCaller
    /\ InitPatterns
    /\ IdleHandlers
    /\ IdleOutput

NextSum ==
    \/ \E fail \in GetFails : GetSumContentAndRemove(fail)
    \/ \E fail \in RestoreFails : RestoreSumFile(fail)
    \/ \E c \in SumContents, m \in FileModes : MutateWrite(c, m)
    \/ MutateDelete

SpecSum == InitSum /\ [][NextSum]_vars

\* The save went well on an existing go.sum and the restore went well.
SavedAndRestored ==
    /\ pc = "restored"
    /\ origSum.exists
    /\ err = Nil
    /\ ~panicked

\* C1: after a successful GetSumContentAndRemove on an existing go.sum, any
\* mutations of go.sum and a successful RestoreSumFile with the returned
\* values, go.sum exists and has exactly the bytes it had before.
C1_RestoreBytes ==
    SavedAndRestored => (gosum.exists /\ gosum.content = origSum.content)

\* The restore ran over a go.sum that the mutations left with other bytes.
C1_Witness ==
    /\ SavedAndRestored
    /\ origSum.content # << >>
    /\ gosum.content = origSum.content
    /\ gosum.mode # origSum.mode

\* C2: after the same sequence go.sum has the permission mode it had before.
C2_RestoreMode ==
    SavedAndRestored => (gosum.exists /\ gosum.mode = origSum.mode)

(***************************************************************************)
(* Parsing go.sum                                                          *)
(***************************************************************************)
GoModSuffix == <<"/", "g", "o", ".", "m", "o", "d">>

SetMax(S) == CHOOSE x \in S : \A y \in S : y <= x
SetMin(S) == CHOOSE x \in S : \A y \in S : x <= y

\* strings.HasPrefix(SubSeq(s, i, Len(s)), p)
HasAt(s, i, p) == i + Len(p) - 1 <= Len(s) /\ SubSeq(s, i, i + Len(p) - 1) = p

\* Index of the first c in s, 0 when there is none.
IndexOf(s, c) ==
    IF \E i \in 1..Len(s) : s[i] = c
    THEN SetMin({i \in 1..Len(s) : s[i] = c})
    ELSE 0

\* bufio.ScanLines: drops one trailing carriage return of a line.
dropCR(data) ==
    IF Len(data) > 0 /\ data[Len(data)] = "\r"
    THEN SubSeq(data, 1, Len(data) - 1)
    ELSE data

\* The tokens of bufio.NewScanner(bytes.NewReader(data)): the lines of data
\* without their end-of-line marker; a final line needs no newline.
RECURSIVE ScanLines(_)
ScanLines(data) ==
    IF data = << >> THEN << >>
    ELSE LET i == IndexOf(data, NL)
         IN  IF i = 0 THEN <<dropCR(data)>>
             ELSE <<dropCR(SubSeq(data, 1, i - 1))>>
                  \o ScanLines(SubSeq(data, i + 1, Len(data)))

\* moduleEntryInSumFileRegexp matched from position s of line:
\* ([^\s]+), a space, (v[^\/]+), \/go\.mod; each + takes the longest run that
\* lets the rest match.  The result is the set of the one match, or {}.
VersionEnds_BareV(line, v) ==
    {k \in v..Len(line) :
        /\ \A i \in (v + 1)..k : line[i] # "/"
        /\ HasAt(line, k + 1, GoModSuffix)}
VersionEnds(line, v) ==
    {k \in (v + 1)..Len(line) :
        /\ \A i \in (v + 1)..k : line[i] # "/"
        /\ HasAt(line, k + 1, GoModSuffix)}
ModuleEnds(line, s) ==
    {j \in s..Len(line) :
        /\ \A i \in s..j : ~IsReSpace(line[i])
        /\ HasAt(line, j + 1, <<" ", "v">>)
        /\ VersionEnds(line, j + 2) # {}}
moduleEntryMatchAt(line, s) ==
    IF ModuleEnds(line, s) = {} THEN << >>
    ELSE LET j == SetMax(ModuleEnds(line, s))
             k == SetMax(VersionEnds(line, j + 2))
         IN  <<SubSeq(line, s, k + Len(GoModSuffix)),
               SubSeq(line, s, j),
               SubSeq(line, j + 2, k)>>

\* moduleEntryInSumFileRegexp.FindStringSubmatch(line): the leftmost match.
moduleEntryInSumFileRegexp(line) ==
    LET starts == {s \in 1..Len(line) : moduleEntryMatchAt(line, s) # << >>}
    IN  IF starts = {} THEN << >>
        ELSE moduleEntryMatchAt(line, SetMin(starts))

\* fmt.Sprintf("%s@%s", a, b)
SprintfAt(a, b) == a \o <<"@">> \o b

\* The loop of FetchModulesFromGoSum over the scanned lines.
RECURSIVE CollectModules(_)
CollectModules(lines) ==
    IF lines = << >> THEN << >>
    ELSE LET matches == moduleEntryInSumFileRegexp(Head(lines))
         IN  (IF Len(matches) > 0
              THEN <<SprintfAt(matches[2], matches[3])>>
              ELSE << >>) \o CollectModules(Tail(lines))

FetchFails == {"none", "exists", "stat", "read"}

FetchModulesFromGoSum(fail) ==
    /\ pc = "start"
    /\ pc' = "fetched"
    /\ fail \in (IF gosum.exists THEN FetchFails ELSE {"none", "exists"})
    /\ fault' = fail
    /\ origSum' = gosum
    /\ IF fail = "exists"
       THEN modules' = << >> /\ err' = IoError(<<"e">>)
       ELSE IF gosum.exists
       THEN LET d == GetFileDetails(gosum, fail)
            IN  IF d.err # Nil
                THEN modules' = << >> /\ err' = d.err
                ELSE /\ modules' = CollectModules(ScanLines(d.content))
                     /\ err' = Nil
       ELSE modules' = << >> /\ err' = Nil
    /\ UNCHANGED <<gosum, sumFileContent, sumFileStat, panicked, regExpVars, handlerVars, outputVars>>

\* PrintGoSumContent(rootProjectDir): reads go.sum for the debug log.
PrintGoSumContent(fail) ==
    /\ pc = "start"
    /\ pc' = "printed"
    /\ fail \in (IF gosum.exists THEN FetchFails ELSE {"none", "exists"})
    /\ fault' = fail
    /\ err' = IF fail = "exists" THEN IoError(<<"e">>)
              ELSE IF gosum.exists THEN GetFileDetails(gosum, fail).err
              ELSE Nil
    /\ UNCHANGED <<gosum, sumFileContent, sumFileStat, panicked, origSum,
                   modules, regExpVars, handlerVars, outputVars>>

FetchLinePool ==
    {<< >>,
     <<"a", " ", "v", "1">> \o GoModSuffix \o <<" ", "h">>,
     <<"a", " ", "v", "1", " ", "h">>,
     <<"b", "/", "c", " ", "v", "2">> \o GoModSuffix,
     <<"a", " ", "v">> \o GoModSuffix,
     <<"x", " ", "a", " ", "v", "1">> \o GoModSuffix,
     <<"a", " ", " ", "v", "1">> \o GoModSuffix,
     <<"a", " ", "v", "1", " ", "v", "2">> \o GoModSuffix,
     <<"a", "\t", "v", "1">> \o GoModSuffix,
     <<"a", " ", "v", "1">> \o GoModSuffix \o <<"\r">>,
     <<"a", " ", "v", "1", "/", "x">> \o GoModSuffix}
FetchContents == Texts(FetchLinePool, MaxFetchLines)

InitFetch ==
    /\ gosum \in {NoFile} \cup {File(c, {"uR", "uW"}) : c \in FetchContents}
    /\ InitCaller
    /\ InitPatterns
    /\ IdleHandlers
    /\ IdleOutput

NextFetch ==
    \/ \E fail \in FetchFails : FetchModulesFromGoSum(fail)
    \/ \E fail \in FetchFails : PrintGoSumContent(fail)

SpecFetch == InitFetch /\ [][NextFetch]_vars

\* The lines of a text: the runs between its newlines.
LineBreaks(text) == {0} \cup {i \in 1..Len(text) : text[i] = NL}
                        \cup {Len(text) + 1}
TextLine(text, b) ==
    SubSeq(text, b + 1, SetMin({e \in LineBreaks(text) : e > b}) - 1)

\* '<module> <version>/go.mod' stands at positions s..k+7 of line: the module
\* is line[s..j], a run of non-whitespace, and the version line[j+2..k]
\* starts with 'v', goes on and has no '/'.
IsEntry(line, s, j, k) ==
    /\ 1 <= s /\ s <= j /\ j + 3 <= k /\ k + 7 <= Len(line)
    /\ \A i \in s..j : line[i] \notin {" ", "\t", "\r", "\n", "\f"}
    /\ line[j + 1] = " "
    /\ line[j + 2] = "v"
    /\ \A i \in (j + 2)..k : line[i] # "/"
    /\ SubSeq(line, k + 1, k + 7) = <<"/", "g", "o", ".", "m", "o", "d">>
EntryIds(line) ==
    {SubSeq(line, s, j) \o <<"@">> \o SubSeq(line, j + 2, k) :
        <<s, j, k>> \in {t \in (1..Len(line)) \X (1..Len(line)) \X (1..Len(line)) :
                            IsEntry(line, t[1], t[2], t[3])}}

\* modules holds one identifier for each line of text that has an entry, in
\* the order of the lines, and nothing else.
RECURSIVE OnePerEntryLine(_, _, _)
OnePerEntryLine(mods, text, b) ==
    IF b > Len(text) THEN mods = << >>
    ELSE LET ids == EntryIds(TextLine(text, b))
             nb == SetMin({e \in LineBreaks(text) : e > b})
         IN  IF ids = {} THEN OnePerEntryLine(mods, text, nb)
             ELSE /\ mods # << >>
                  /\ Head(mods) \in ids
                  /\ OnePerEntryLine(Tail(mods), text, nb)

\* C7: FetchModulesFromGoSum returns, in file order, exactly one
\* module@version for each line of go.sum that has a
\* '<module> <version>/go.mod' entry and nothing for any other line; without a
\* go.sum it returns an empty result and a nil error; go.sum is unchanged.
C7_FetchModules ==
    pc = "fetched" =>
        /\ gosum = origSum
        /\ (fault = "none" => err = Nil)
        /\ (~gosum.exists /\ fault = "none") => modules = << >>
        /\ (gosum.exists /\ fault = "none") =>
               OnePerEntryLine(modules, gosum.content, 0)

\* Two entry lines and one line without an entry, fetched.
C7_Witness ==
    /\ pc = "fetched"
    /\ gosum.exists
    /\ err = Nil
    /\ Len(modules) = 2
    /\ Cardinality(LineBreaks(gosum.content)) >= 4

\* C4: the collection FetchModulesFromGoSum returns holds each
\* module@version identifier at most once.
C4_NoDuplicates ==
    pc = "fetched" =>
        \A i, j \in 1..Len(modules) : modules[i] = modules[j] => i = j

(***************************************************************************)
(* The output patterns                                                     *)
(***************************************************************************)

\* A *gofrogio.CmdOutputPattern is the nil pointer (NilPattern) or a pointer
\* to a struct, whose zero value has a nil RegExp and a nil ExecFunc.
ZeroPattern == [isNil |-> FALSE, RegExp |-> "nil", ExecFunc |-> "nil"]
CompileError(regex) == <<"r", "e", ":">> \o <<regex>>

\* initRegExp(regex, execFunc); ok: utils.GetRegExp compiles regex.
initRegExp_NoExecFunc(regex, execFunc, ok) ==
    IF ~ok
    THEN [pattern |-> ZeroPattern, err |-> CompileError(regex)]
    ELSE [pattern |-> [isNil |-> FALSE, RegExp |-> regex, ExecFunc |-> "nil"],
          err |-> Nil]

initRegExp(regex, execFunc, ok) ==
    IF ~ok
    THEN [pattern |-> ZeroPattern, err |-> CompileError(regex)]
    ELSE [pattern |-> [isNil |-> FALSE, RegExp |-> regex, ExecFunc |-> execFunc],
          err |-> Nil]

\* One 'if xRegExp == nil { xRegExp, err = initRegExp(...) }' block; st is the
\* state of the enclosing function: the pattern variables, its err variable,
\* whether it has returned, and the patterns it tried to compile.
\* checked: the block ends with 'if err != nil { return err }'.
PatternBlock(st, name, execFunc, checked, bad) ==
    IF st.returned \/ ~st.re[name].isNil THEN st
    ELSE LET r == initRegExp(name, execFunc, name \notin bad)
         IN  [re       |-> [st.re EXCEPT ![name] = r.pattern],
              err      |-> r.err,
              returned |-> checked /\ r.err # Nil,
              tried    |-> st.tried \cup {name}]

\* prepareGlobalRegExp(); bad: the patterns whose compilation fails.
prepareGlobalRegExp(st, bad) ==
    LET s1 == PatternBlock(st, "protocol", "MaskCredentials", TRUE, bad)
        s2 == PatternBlock(s1, "notFound", "Error", TRUE, bad)
        s3 == PatternBlock(s2, "unrecognizedImport", "Error", TRUE, bad)
        s4 == PatternBlock(s3, "unknownRevision", "Error", FALSE, bad)
        s5 == PatternBlock(s4, "gitFetchError", "Error", FALSE, bad)
    IN  s5

\* prepareNotFoundZipRegExp()
prepareNotFoundZipRegExp(st, bad) ==
    PatternBlock([st EXCEPT !.err = Nil], "notFoundZip", "Error", FALSE, bad)

\* The six package-level pattern variables as one function.
Patterns ==
    [n \in PatternNames |->
        CASE n = "protocol"           -> protocolRegExp
          [] n = "notFound"           -> notFoundRegExp
          [] n = "unrecognizedImport" -> unrecognizedImportRegExp
          [] n = "unknownRevision"    -> unknownRevisionRegExp
          [] n = "gitFetchError"      -> gitFetchErrorRegExp
          [] n = "notFoundZip"        -> notFoundZipRegExp]

\* prepareRegExp()
prepareRegExp(bad) ==
    /\ calls < MaxCalls
    /\ calls' = calls + 1
    /\ LET st0 == [re |-> Patterns, err |-> Nil, returned |-> FALSE, tried |-> {}]
           g   == prepareGlobalRegExp(st0, bad)
           z   == IF g.err # Nil THEN g
                  ELSE prepareNotFoundZipRegExp([g EXCEPT !.returned = FALSE], bad)
       IN  /\ protocolRegExp' = z.re["protocol"]
           /\ notFoundRegExp' = z.re["notFound"]
           /\ unrecognizedImportRegExp' = z.re["unrecognizedImport"]
           /\ unknownRevisionRegExp' = z.re["unknownRevision"]
           /\ gitFetchErrorRegExp' = z.re["gitFetchError"]
           /\ notFoundZipRegExp' = z.re["notFoundZip"]
           /\ err' = z.err
           /\ compileCount' = [n \in PatternNames |->
                                  compileCount[n] + IF n \in z.tried THEN 1 ELSE 0]
           /\ failedNow' = z.tried \cap bad
           /\ everFailed' = (everFailed \/ z.tried \cap bad # {})
    /\ UNCHANGED <<fileVars, handlerVars, outputVars>>

InitRegExp ==
    /\ gosum = NoFile
    /\ InitCaller
    /\ InitPatterns
    /\ IdleHandlers
    /\ IdleOutput

NextRegExp == \E bad \in SUBSET PatternNames : prepareRegExp(bad)

SpecRegExp == InitRegExp /\ [][NextRegExp]_vars

\* C6: when the compilation of one of the six patterns fails during a call
\* of prepareRegExp, that call returns a non-nil error.
C6_ErrorPropagated ==
    \A n \in PatternNames : n \in failedNow => err # Nil

\* C10: each of the six pattern variables is nil or holds a pattern with a
\* compiled regexp and a handler.
C10_NilOrComplete ==
    \A n \in PatternNames :
        \/ Patterns[n].isNil
        \/ Patterns[n].RegExp # "nil" /\ Patterns[n].ExecFunc # "nil"

\* After a first call, and with every compilation good so far, each pattern
\* has been compiled once and carries its handler.
C8_AfterFirstCall ==
    (calls >= 1 /\ ~everFailed) =>
        \A n \in PatternNames :
            /\ compileCount[n] = 1
            /\ ~Patterns[n].isNil
            /\ Patterns[n].RegExp = n
            /\ Patterns[n].ExecFunc =
                   IF n = "protocol" THEN "MaskCredentials" ELSE "Error"
\* C8: while every compilation succeeds, each pattern is compiled exactly
\* once, by the first call; the protocol pattern carries MaskCredentials and
\* the other five carry Error; later calls change no pattern variable.
C8_CompiledOnce ==
    /\ []C8_AfterFirstCall
    /\ [][(calls >= 1 /\ ~everFailed') => Patterns' = Patterns]_vars

\* A second call was made after a first one, with every compilation good.
C8_Witness == calls >= 2 /\ ~everFailed /\ ~Patterns["notFoundZip"].isNil

(***************************************************************************)
(* The handlers of the output patterns                                     *)
(***************************************************************************)
\* unicode.IsSpace, on the characters used here.
IsSpace(c) == c \in {" ", "\t", "\n", "\r", "\f"}

\* strings.TrimSpace
RECURSIVE TrimLeft(_)
TrimLeft(s) ==
    IF s # << >> /\ IsSpace(Head(s)) THEN TrimLeft(Tail(s)) ELSE s
RECURSIVE TrimRight(_)
TrimRight(s) ==
    IF s # << >> /\ IsSpace(s[Len(s)])
    THEN TrimRight(SubSeq(s, 1, Len(s) - 1))
    ELSE s
TrimSpace(s) == TrimRight(TrimLeft(s))

\* Index of the first occurrence of sub in s from position i on, 0 if none.
RECURSIVE IndexFrom(_, _, _)
IndexFrom(s, sub, i) ==
    IF i + Len(sub) - 1 > Len(s) THEN 0
    ELSE IF HasAt(s, i, sub) THEN i
    ELSE IndexFrom(s, sub, i + 1)

\* strings.Replace(s, old, new, 1)
ReplaceFirst(s, old, new) ==
    LET i == IndexFrom(s, old, 1)
    IN  IF i = 0 THEN s
        ELSE SubSeq(s, 1, i - 1) \o new \o SubSeq(s, i + Len(old), Len(s))

\* utils.MaskCredentials(line, credentialsPart) of jfrog-client-go: the first
\* occurrence of the matched 'scheme://user:password@' becomes
\* 'scheme://***.***@'.
MaskedCredentials == <<"/", "/", "*", "*", "*", ".", "*", "*", "*", "@">>
utilsMaskCredentials(line, credentialsPart) ==
    LET i == IndexFrom(credentialsPart, <<"/", "/">>, 1)
        scheme == IF i = 0 THEN credentialsPart
                  ELSE SubSeq(credentialsPart, 1, i - 1)
    IN  ReplaceFirst(line, credentialsPart, scheme \o MaskedCredentials)

\* MaskCredentials(pattern)
MaskCredentials(p) ==
    IF Len(p.MatchedResults) = 0
    THEN [out |-> << >>, err |-> Nil, panic |-> TRUE]
    ELSE [out |-> utilsMaskCredentials(p.Line, p.MatchedResults[1]),
          err |-> Nil, panic |-> FALSE]

\* fmt.Sprintf("%s", a []string): the elements between brackets, one space
\* between two elements.
RECURSIVE JoinSpace(_)
JoinSpace(a) ==
    IF a = << >> THEN << >>
    ELSE IF Len(a) = 1 THEN a[1]
    ELSE a[1] \o <<" ">> \o JoinSpace(Tail(a))
SprintfSlice(a) == <<"[">> \o JoinSpace(a) \o <<"]">>

RegexFound == <<"R", "e", "g", "e", "x", " ", "f", "o", "u", "n", "d", ":", " ">>

\* Error(pattern); writeFails: fmt.Fprint(os.Stderr, pattern.Line) fails.
\* written is what the call appends to the standard error.
Error_IgnoreWriteFailure(p, writeFails) ==
    IF writeFails
    THEN [out |-> << >>, err |-> Nil, written |-> << >>]
    ELSE IF Len(p.MatchedResults) >= 3
    THEN [out |-> << >>,
          err |-> p.MatchedResults[3] \o <<":">> \o TrimSpace(p.MatchedResults[2]),
          written |-> p.Line]
    ELSE [out |-> << >>,
          err |-> RegexFound \o SprintfSlice(p.MatchedResults),
          written |-> p.Line]

Error(p, writeFails) ==
    IF writeFails
    THEN [out |-> << >>, err |-> IoError(<<"w">>), written |-> << >>]
    ELSE IF Len(p.MatchedResults) >= 3
    THEN [out |-> << >>,
          err |-> p.MatchedResults[3] \o <<":">> \o TrimSpace(p.MatchedResults[2]),
          written |-> p.Line]
    ELSE [out |-> << >>,
          err |-> RegexFound \o SprintfSlice(p.MatchedResults),
          written |-> p.Line]

\* The command runner calls pattern.ExecFunc(pattern) on a matched line.
CallMaskCredentials ==
    /\ pc = "start"
    /\ pc' = "masked"
    /\ LET r == MaskCredentials(pattern)
       IN  /\ result' = r.out
           /\ err' = r.err
           /\ panicked' = r.panic
    /\ fault' = "none"
    /\ UNCHANGED <<gosum, sumFileContent, sumFileStat, origSum, modules,
                   regExpVars, pattern, stderr, outputVars>>

CallError(writeFails) ==
    /\ pc = "start"
    /\ pc' = "errored"
    /\ LET r == Error(pattern, writeFails)
       IN  /\ result' = r.out
           /\ err' = r.err
           /\ stderr' = stderr \o r.written
    /\ fault' = IF writeFails THEN "write" ELSE "none"
    /\ UNCHANGED <<gosum, sumFileContent, sumFileStat, origSum, modules,
                   regExpVars, pattern, panicked, outputVars>>

\* Matched lines: a line and pieces of it that a match can capture.
CredLine == <<"h", ":", "/", "/", "u", ":", "p", "@", "x">>
NotFoundLine == <<"g", " ", "a", "/", "b", ":", " ", "4", "0", "4", " ">>
BlankLine == <<"\t", "a", " ", "\t">>
MatchPool(line) ==
    CASE line = CredLine ->
             {<<"h", ":", "/", "/", "u", ":", "p", "@">>,
              <<"/", "/", "u", ":", "p", "@">>, <<"u", ":", "p">>, <<"h">>}
      [] line = NotFoundLine ->
             {<<" ", "a", "/", "b">>, <<"a", "/", "b">>,
              <<"4", "0", "4", " ">>, << >>}
      [] OTHER ->
             {<<"\t", "a", " ", "\t">>, <<"a", " ">>, <<" ", "\t">>, <<"a">>}
RECURSIVE SeqsOfLen(_, _)
SeqsOfLen(S, n) ==
    IF n = 0 THEN {<< >>}
    ELSE {<<x>> \o t : x \in S, t \in SeqsOfLen(S, n - 1)}

InitHandlers ==
    /\ gosum = NoFile
    /\ InitCaller
    /\ InitPatterns
    /\ IdleOutput
    /\ \E line \in {CredLine, NotFoundLine, BlankLine} :
         \E n \in 1..MaxMatched :
           \E m \in SeqsOfLen(MatchPool(line), n) :
             pattern = [Line |-> line, MatchedResults |-> m]
    /\ result = << >>
    /\ stderr = << >>

NextHandlers ==
    \/ CallMaskCredentials
    \/ \E writeFails \in BOOLEAN : CallError(writeFails)

SpecHandlers == InitHandlers /\ [][NextHandlers]_vars

\* t is s without the white space around it.
IsTrimmed(t, s) ==
    \E a \in 1..(Len(s) + 1) : \E b \in 0..Len(s) :
        /\ t = SubSeq(s, a, b)
        /\ \A i \in 1..(a - 1) : s[i] \in {" ", "\t", "\n", "\r", "\f"}
        /\ \A i \in (b + 1)..Len(s) : s[i] \in {" ", "\t", "\n", "\r", "\f"}
        /\ t # << >> =>
               /\ t[1] \notin {" ", "\t", "\n", "\r", "\f"}
               /\ t[Len(t)] \notin {" ", "\t", "\n", "\r", "\f"}

\* cred has the shape the protocol pattern matches: scheme://user:password@
IsCredentials(cred) ==
    \E i \in 2..Len(cred) : \E j \in (i + 3)..(Len(cred) - 1) :
        /\ SubSeq(cred, i, i + 2) = <<":", "/", "/">>
        /\ \A k \in 1..(i - 1) : cred[k] \notin {":", "/"}
        /\ cred[j] = ":"
        /\ cred[Len(cred)] = "@"

\* r is line with its first occurrence of cred replaced by something else of
\* which the user and password are no part.
IsMasked(r, line, cred) ==
    \E i \in 1..Len(line) :
        /\ HasAt(line, i, cred)
        /\ \A j \in 1..(i - 1) : ~HasAt(line, j, cred)
        /\ SubSeq(r, 1, i - 1) = SubSeq(line, 1, i - 1)
        /\ \E k \in i..Len(r) :
              /\ SubSeq(r, k + 1, Len(r)) = SubSeq(line, i + Len(cred), Len(line))
              /\ \A j \in i..k : r[j] \notin {"u", "p"}
              /\ \E j \in i..k : r[j] = "*"

\* C5: for a matched line MaskCredentials returns the line with the matched
\* credentials masked and a nil error; Error returns the empty string and a
\* non-nil error, also when the write to the standard error fails; with at
\* least 3 match entries and a good write the error's message is
\* MatchedResults[2] + ":" + MatchedResults[1] trimmed of white space.
C5_RedactOrReport ==
    /\ pc = "masked" =>
           /\ err = Nil
           /\ ~panicked
           /\ IsCredentials(pattern.MatchedResults[1]) =>
                  IsMasked(result, pattern.Line, pattern.MatchedResults[1])
    /\ pc = "errored" =>
           /\ result = << >>
           /\ err # Nil
           /\ (Len(pattern.MatchedResults) >= 3 /\ fault = "none") =>
                  \E t \in {SubSeq(err, Len(pattern.MatchedResults[3]) + 2, Len(err))} :
                      /\ err = pattern.MatchedResults[3] \o <<":">> \o t
                      /\ IsTrimmed(t, pattern.MatchedResults[2])

\* Error ran on a match of three entries whose first group has white space on
\* both sides.
C5_Witness ==
    /\ pc = "errored"
    /\ fault = "none"
    /\ Len(pattern.MatchedResults) >= 3
    /\ pattern.MatchedResults[2] = <<"\t", "a", " ", "\t">>
    /\ err = pattern.MatchedResults[3] \o <<":", "a">>

(***************************************************************************)
(* Merging the outputs of the graph command                                *)
(***************************************************************************)
GoFinding == <<"g", "o", ":", " ", "f", "i", "n", "d", "i", "n", "g">>

\* strings.Split(s, c) for a separator c of one character.
RECURSIVE Split(_, _)
Split(s, c) ==
    LET i == IndexOf(s, c)
    IN  IF i = 0 THEN <<s>>
        ELSE <<SubSeq(s, 1, i - 1)>> \o Split(SubSeq(s, i + 1, Len(s)), c)

\* The first loop of outputToMap: the keys of the lines of the graph.
RECURSIVE GraphKeys(_)
GraphKeys(lineOutput) ==
    IF lineOutput = << >> THEN {}
    ELSE LET splitLine == Split(Head(lineOutput), " ")
         IN  (IF Len(splitLine) = 2 THEN {splitLine[2]} ELSE {})
             \cup GraphKeys(Tail(lineOutput))

\* The second loop of outputToMap, from the keys found so far.  line[12:]
\* panics on a line shorter than 12 and dependencyParts[1] panics when the
\* rest of the line has no space.
RECURSIVE FindingKeys(_, _)
FindingKeys(lineOutput, keys) ==
    IF lineOutput = << >> THEN [panic |-> FALSE, keys |-> keys]
    ELSE LET line == Head(lineOutput)
         IN  IF ~HasAt(line, 1, GoFinding)
             THEN FindingKeys(Tail(lineOutput), keys)
             ELSE IF Len(line) < 12
             THEN [panic |-> TRUE, keys |-> keys]
             ELSE LET lineContent == SubSeq(line, 13, Len(line))
                      dependencyParts == Split(lineContent, " ")
                  IN  IF Len(dependencyParts) < 2
                      THEN [panic |-> TRUE, keys |-> keys]
                      ELSE FindingKeys(Tail(lineOutput),
                               keys \cup {SprintfAt(dependencyParts[1],
                                                    dependencyParts[2])})

\* outputToMap(output, errorOutput)
outputToMap_FirstField(out, errOut) ==
    LET r == FindingKeys(Split(errOut, NL),
                         {Split(l, " ")[1] : l \in
                             {Split(out, NL)[i] : i \in 1..Len(Split(out, NL))}})
    IN  [panic |-> r.panic, map |-> [k \in r.keys |-> TRUE]]

outputToMap(out, errOut) ==
    LET r == FindingKeys(Split(errOut, NL), GraphKeys(Split(out, NL)))
    IN  [panic |-> r.panic, map |-> [k \in r.keys |-> TRUE]]

CallOutputToMap ==
    /\ pc = "start"
    /\ pc' = "merged"
    /\ LET r == outputToMap(output, errorOutput)
       IN  /\ panicked' = r.panic
           /\ mapOfDeps' = IF r.panic THEN << >> ELSE r.map
    /\ UNCHANGED <<gosum, sumFileContent, sumFileStat, fault, origSum, modules,
                   err, regExpVars, handlerVars, output, errorOutput>>

OutLinePool ==
    {<<"a", " ", "m", "@", "v">>,
     <<"a">>,
     <<"a", " ", "b", " ", "c">>,
     <<"a", " ">>}
ErrLinePool ==
    {GoFinding \o <<" ", "m", " ", "v">>,
     GoFinding \o <<" ", "m", " ", "v", " ", "x">>,
     GoFinding \o <<"X", "b", " ", "v">>,
     GoFinding \o <<" ", "m">>,
     GoFinding \o <<" ">>,
     GoFinding,
     <<"g", "o", ":", " ", "m", " ", "v">>,
     <<"o", " ", "m", "@", "v">>}

InitOutput ==
    /\ gosum = NoFile
    /\ InitCaller
    /\ InitPatterns
    /\ IdleHandlers
    /\ output \in Texts(OutLinePool, MaxOutLines)
    /\ errorOutput \in Texts(ErrLinePool, MaxErrLines)
    /\ mapOfDeps = << >>

NextOutput == CallOutputToMap

SpecOutput == InitOutput /\ [][NextOutput]_vars

\* The lines of a text, by the position of the break before each.
LineStarts(text) == LineBreaks(text) \ {Len(text) + 1}

\* The positions of the spaces of a line.
Spaces(line) == {i \in 1..Len(line) : line[i] = " "}

\* field n (from 0) of a line cut at its spaces, for a line with more than n
\* spaces or, for the last field, exactly n.
FieldOf(line, n) ==
    LET cuts == {0} \cup Spaces(line) \cup {Len(line) + 1}
        from == CHOOSE c \in cuts : Cardinality({d \in cuts : d < c}) = n
        to   == CHOOSE c \in cuts : Cardinality({d \in cuts : d < c}) = n + 1
    IN  SubSeq(line, from + 1, to - 1)

IsFinding(line) ==
    Len(line) >= 11 /\ SubSeq(line, 1, 11) =
        <<"g", "o", ":", " ", "f", "i", "n", "d", "i", "n", "g">>

\* Every 'go: finding' line has a module and a version after the prefix.
AllFindingsComplete(text) ==
    \A b \in LineStarts(text) :
        LET line == TextLine(text, b)
        IN  IsFinding(line) =>
                /\ Len(line) >= 12
                /\ Spaces(SubSeq(line, 13, Len(line))) # {}

\* (a): the second field of every line of two fields.
TwoFieldKeys(text) ==
    {FieldOf(TextLine(text, b), 1) :
        b \in {c \in LineStarts(text) :
                  Cardinality(Spaces(TextLine(text, c))) = 1}}

\* (b): module@version of every 'go: finding' line.
FindingLineKeys(text) ==
    {FieldOf(SubSeq(TextLine(text, b), 13, Len(TextLine(text, b))), 0)
        \o <<"@">> \o
     FieldOf(SubSeq(TextLine(text, b), 13, Len(TextLine(text, b))), 1) :
        b \in {c \in LineStarts(text) : IsFinding(TextLine(text, c))}}

\* C3: when every 'go: finding' line has a module and a version, the keys of
\* the map outputToMap returns are exactly the second fields of the two-field
\* lines of output and the module@version of the 'go: finding' lines of
\* errorOutput, each key once and mapped to true.
C3_MergedKeys ==
    (pc = "merged" /\ AllFindingsComplete(errorOutput)) =>
        /\ ~panicked
        /\ DOMAIN mapOfDeps = TwoFieldKeys(output) \cup FindingLineKeys(errorOutput)
        /\ \A k \in DOMAIN mapOfDeps : mapOfDeps[k] = TRUE

\* Both outputs name m@v, and one more dependency is named.
C3_Witness ==
    /\ pc = "merged"
    /\ AllFindingsComplete(errorOutput)
    /\ <<"m", "@", "v">> \in TwoFieldKeys(output) \cap FindingLineKeys(errorOutput)
    /\ Cardinality(DOMAIN mapOfDeps) = 2

\* C9: outputToMap returns a map and does not crash, whatever the two
\* strings are.
C9_NoCrash == pc = "merged" => ~panicked
====
